---- MODULE Spec2Model ----
(***************************************************************************)
(* Model of the retrieval core of GenAI-demo (src/rag_system.py): the      *)
(* RAGSystem session object, the PDF files and the cache directory it      *)
(* reads and writes, and its two operations process_documents (ingest)     *)
(* and query (answer); and of the manager of the Ollama server process     *)
(* (OllamaManager in src/app/demo.py) with its two operations               *)
(* ensure_ollama_running and shutdown_ollama, the script around it (entry, *)
(* finally block, atexit hook, SIGINT handler) and the start-up check of   *)
(* the Windows manager (src/app/demo-Win.py).                               *)
(*                                                                         *)
(* Strings are kept run-length encoded: a text is a sequence of runs       *)
(* [c |-> character, n |-> count], canonical (no empty run, no two         *)
(* adjacent runs of the same character), so that equal texts are equal     *)
(* values.  Slicing, stripping and concatenation are computed on the runs  *)
(* exactly as Python computes them on the characters.                      *)
(*                                                                         *)
(* Vectors are exact: two rational coordinates over a common denominator.   *)
(***************************************************************************)
EXTENDS Integers, Sequences, FiniteSets, TLC

VARIABLES
    files,             \* the PDF files on disk: path name -> [mtime, pages]
    cache,             \* the cache directory: cache key -> unpickled content
    embeddings_model,  \* self.embeddings_model: 0 is None, n the n-th loaded instance
    faiss,             \* self.faiss has been set by _load_vector_store
    vector_store,      \* self.vector_store: [built, vecs]
    chunks,            \* self.chunks
    chunk_metadata,    \* self.chunk_metadata
    model_loads,       \* number of SentenceTransformer instances constructed
    last,              \* what the last step did: the call made, what the files
                       \* and collaborators did during it, and what it returned
    n_steps,           \* calls made and outside changes seen so far
    ollama_process,    \* OllamaManager.ollama_process: 0 is None, p the p-th process
    started_by_us,     \* OllamaManager.started_by_us
    processes,         \* the processes the manager has held a handle of
    manager_last,      \* what the last call of the manager did
    pc,                \* where the main thread of the script is: a stack
    retry_i,           \* the loop counter i of the Windows start-up check
    wait_time          \* wait_time of the Windows start-up check

control_vars == <<pc, retry_i, wait_time>>

manager_vars == <<ollama_process, started_by_us, processes, manager_last,
                  control_vars>>

rag_vars == <<files, cache, embeddings_model, faiss, vector_store, chunks,
              chunk_metadata, model_loads, last>>

vars == <<files, cache, embeddings_model, faiss, vector_store, chunks,
          chunk_metadata, model_loads, last, n_steps,
          ollama_process, started_by_us, processes, manager_last,
          pc, retry_i, wait_time>>

-----------------------------------------------------------------------------
(* Bounds of the model *)

MaxSteps == 3

-----------------------------------------------------------------------------
(* Program constants *)

chunk_size == 500

chunk_overlap == 50

top_k == 3

MinChunkLen == 50

max_retries == 8

-----------------------------------------------------------------------------
(* Strings *)

Whitespace == {" ", "\n"}

Run(c, n) == [c |-> c, n |-> n]

Str(c, n) == IF n <= 0 THEN <<>> ELSE <<Run(c, n)>>

\* s + t
Concat(s, t) ==
    IF s = <<>> THEN t
    ELSE IF t = <<>> THEN s
    ELSE IF s[Len(s)].c = t[1].c
         THEN SubSeq(s, 1, Len(s) - 1)
                  \o <<Run(t[1].c, s[Len(s)].n + t[1].n)>> \o Tail(t)
         ELSE s \o t

RECURSIVE StrLen(_)
\* len(s)
StrLen(s) == IF s = <<>> THEN 0 ELSE s[1].n + StrLen(Tail(s))

RECURSIVE Take(_, _)
\* s[:n]
Take(s, n) ==
    IF n <= 0 \/ s = <<>> THEN <<>>
    ELSE IF s[1].n <= n THEN <<s[1]>> \o Take(Tail(s), n - s[1].n)
    ELSE <<Run(s[1].c, n)>>

RECURSIVE Drop(_, _)
\* s[n:]
Drop(s, n) ==
    IF n <= 0 \/ s = <<>> THEN s
    ELSE IF s[1].n <= n THEN Drop(Tail(s), n - s[1].n)
    ELSE <<Run(s[1].c, s[1].n - n)>> \o Tail(s)

\* s[i:j] for 0 <= i <= j
Slice(s, i, j) == Take(Drop(s, i), j - i)

RECURSIVE LStrip(_)
LStrip(s) ==
    IF s # <<>> /\ s[1].c \in Whitespace THEN LStrip(Tail(s)) ELSE s

RECURSIVE RStrip(_)
RStrip(s) ==
    IF s # <<>> /\ s[Len(s)].c \in Whitespace
    THEN RStrip(SubSeq(s, 1, Len(s) - 1)) ELSE s

\* s.strip()
Strip(s) == RStrip(LStrip(s))

-----------------------------------------------------------------------------
(* The files of the documents folder *)

documents_folder == "documents"

Names == {"a.pdf", "b.pdf"}

\* os.path.join(documents_folder, file)
PathOf(name) == [dir |-> documents_folder, name |-> name]

\* os.path.basename(pdf_file)
Basename(path) == path.name

\* The page texts a PDF can hold (what page.extract_text() returns for each
\* page): 1200 and 480 characters of text once extracted, and two pages with
\* a long blank stretch.
PdfContents ==
    { <<Str("x", 1199)>>,
      <<Str("x", 479)>>,
      <<Str("x", 440), Concat(Str(" ", 520), Str("y", 199))>> }

\* The lists of paths a caller passes to process_documents: the callers pass
\* no empty list; one list names a file that is not on disk.
PdfFileLists ==
    { <<PathOf(n)>> : n \in Names }
             \cup { l \in { <<PathOf(n), PathOf(m)>> : n, m \in Names } : l[1] # l[2] }
             \cup { <<PathOf("a.pdf"), PathOf("gone.pdf")>> }

RECURSIVE ExtractPages(_, _)
ExtractPages(pages, text) ==
    IF pages = <<>> THEN text
    ELSE ExtractPages(Tail(pages), Concat(Concat(text, pages[1]), Str("\n", 1)))

\* _extract_text_from_pdf: the pages' texts, each followed by a newline; the
\* empty string when the file cannot be read (readable = FALSE).
ExtractTextFromPdf(pages, readable) ==
    IF readable THEN ExtractPages(pages, <<>>) ELSE <<>>

-----------------------------------------------------------------------------
(* The chunker *)

RECURSIVE ChunkLoopReservingIds(_, _, _, _)
\* ChunkLoop numbering the chunks by window, so that a dropped window uses up
\* an id.
ChunkLoopReservingIds(text, filename, i, acc) ==
    IF i >= StrLen(text) THEN acc
    ELSE LET chunk_text == Slice(text, i, i + chunk_size) IN
         IF StrLen(Strip(chunk_text)) < MinChunkLen
         THEN ChunkLoopReservingIds(text, filename,
                                    i + (chunk_size - chunk_overlap), acc)
         ELSE ChunkLoopReservingIds(text, filename,
                                    i + (chunk_size - chunk_overlap),
                        Append(acc, [text     |-> Strip(chunk_text),
                                     source   |-> filename,
                                     chunk_id |-> i \div (chunk_size - chunk_overlap)]))

RECURSIVE ChunkLoop(_, _, _, _)
\* the loop of _chunk_text from offset i on, acc being the chunks list so far
ChunkLoop(text, filename, i, acc) ==
    IF i >= StrLen(text) THEN acc
    ELSE LET chunk_text == Slice(text, i, i + chunk_size) IN
         IF StrLen(Strip(chunk_text)) < MinChunkLen
         THEN ChunkLoop(text, filename, i + (chunk_size - chunk_overlap), acc)
         ELSE ChunkLoop(text, filename, i + (chunk_size - chunk_overlap),
                        Append(acc, [text     |-> Strip(chunk_text),
                                     source   |-> filename,
                                     chunk_id |-> Len(acc)]))

\* _chunk_text
ChunkText(text, filename) == ChunkLoop(text, filename, 0, <<>>)

RECURSIVE ChunkStarts(_, _)
\* The offsets i of the loop of _chunk_text, from i on, at which a chunk is
\* appended: the window starts of the retained chunks, in the order of the
\* chunks.
ChunkStarts(text, i) ==
    IF i >= StrLen(text) THEN <<>>
    ELSE IF StrLen(Strip(Slice(text, i, i + chunk_size))) < MinChunkLen
         THEN ChunkStarts(text, i + (chunk_size - chunk_overlap))
         ELSE <<i>> \o ChunkStarts(text, i + (chunk_size - chunk_overlap))

-----------------------------------------------------------------------------
(* Vectors.  A vector is [x, y, d]: the point (x/d, y/d), d > 0, in lowest  *)
(* terms.  A score is a fraction [n, d].                                    *)

RECURSIVE Gcd(_, _)
Gcd(a, b) == IF b = 0 THEN a ELSE Gcd(b, a % b)

Vec(x, y, d) ==
    LET g == Gcd(Gcd(x, y), d) IN [x |-> x \div g, y |-> y \div g, d |-> d \div g]

\* The square root of a perfect square.
Sqrt(n) == CHOOSE r \in 0..n : r * r = n

\* v / np.linalg.norm(v): (x/d, y/d) / (sqrt(x^2 + y^2) / d)
Normalize(v) == Vec(v.x, v.y, Sqrt(v.x * v.x + v.y * v.y))

\* embeddings / np.linalg.norm(embeddings, axis=1, keepdims=True)
NormalizeRows(vs) == [i \in 1..Len(vs) |-> Normalize(vs[i])]

InnerProduct(u, v) == [n |-> u.x * v.x + u.y * v.y, d |-> u.d * v.d]

ScoreGreater(a, b) == a.n * b.d > b.n * a.d

\* The score the index library reports for a missing result.
NegInf == [n |-> -1, d |-> 0]

-----------------------------------------------------------------------------
(* The embedding provider: a deterministic function of the text.  Its       *)
(* vectors need not have unit length.                                       *)

EmbedTable ==
    << Vec(3, 4, 1), Vec(4, 3, 1), Vec(0, 2, 1), Vec(5, 12, 1), Vec(1, 0, 1) >>

EmbedVec(text) == EmbedTable[(StrLen(text) % Len(EmbedTable)) + 1]

\* self.embeddings_model.encode(texts, convert_to_numpy=True)
Encode(texts) == [i \in 1..Len(texts) |-> EmbedVec(texts[i])]

Questions == { Str("x", 7), Str("y", 12) }

-----------------------------------------------------------------------------
(* The similarity index (faiss.IndexFlatIP)                                 *)

NoStore == [built |-> FALSE, vecs |-> <<>>]

\* faiss.IndexFlatIP(dimension) followed by add(rows)
IndexFlatIP(rows) == [built |-> TRUE, vecs |-> rows]

\* Position i (1-based) comes before position j in the result order.
Before(vecs, q, i, j) ==
    \/ ScoreGreater(InnerProduct(q, vecs[i]), InnerProduct(q, vecs[j]))
    \/ /\ ~ScoreGreater(InnerProduct(q, vecs[j]), InnerProduct(q, vecs[i]))
       /\ i < j

\* index.search(q, k): k results by descending inner product, as 0-based
\* positions; results the index cannot supply have position -1.
Search(vecs, q, k) ==
    LET n == Len(vecs)
        Rank(i) == Cardinality({ j \in 1..n : j # i /\ Before(vecs, q, j, i) })
        At(m) == CHOOSE i \in 1..n : Rank(i) = m - 1
    IN [m \in 1..k |->
           IF m <= n THEN [idx |-> At(m) - 1, score |-> InnerProduct(q, vecs[At(m)])]
                     ELSE [idx |-> -1, score |-> NegInf]]

-----------------------------------------------------------------------------
(* The cache directory                                                      *)

Exists(path) == path.name \in DOMAIN files

NameCode(name) == IF name = "a.pdf" THEN 1 ELSE IF name = "b.pdf" THEN 2 ELSE 3

\* f"{pdf_file}:{mtime}", as a number
FileInfo(path) == NameCode(path.name) * (MaxSteps + 2) + files[path.name].mtime

RECURSIVE FilesInfo(_)
\* the files_info list of _get_cache_path: existing files only, in the
\* order of pdf_files
FilesInfo(pdf_files) ==
    IF pdf_files = <<>> THEN <<>>
    ELSE IF Exists(pdf_files[1])
         THEN <<FileInfo(pdf_files[1])>> \o FilesInfo(Tail(pdf_files))
         ELSE FilesInfo(Tail(pdf_files))

RECURSIVE Digest(_, _)
\* hashlib.md5("|".join(files_info)): a collision-free digest of the joined
\* string, which depends on the order of its parts.
Digest(infos, h) ==
    IF infos = <<>> THEN h
    ELSE Digest(Tail(infos), h * (4 * (MaxSteps + 2)) + infos[1])

\* _get_cache_path
GetCachePath(pdf_files) == Digest(FilesInfo(pdf_files), 1)

\* What pickle.load gives for a cache file: a dict with the three keys
\* (has_* says whether the key is there; emb is "array", "None" or "other"
\* for the type of cache_data['embeddings']), or "garbage" when the file
\* does not unpickle.
CacheData(cs, md, emb) ==
    [kind |-> "dict", has_chunks |-> TRUE, chunks |-> cs,
     has_metadata |-> TRUE, metadata |-> md,
     has_embeddings |-> TRUE, emb |-> "array", embeddings |-> emb]

Garbage ==
    [kind |-> "garbage", has_chunks |-> FALSE, chunks |-> <<>>,
     has_metadata |-> FALSE, metadata |-> <<>>,
     has_embeddings |-> FALSE, emb |-> "other", embeddings |-> <<>>]

-----------------------------------------------------------------------------
(* process_documents                                                        *)

\* _load_embedding_model: a new SentenceTransformer on every call; on
\* failure self.embeddings_model keeps its value.
LoadEmbeddingModel(ok) ==
    IF ok THEN [ret |-> TRUE, embeddings_model |-> model_loads + 1,
                model_loads |-> model_loads + 1]
          ELSE [ret |-> FALSE, embeddings_model |-> embeddings_model,
                model_loads |-> model_loads]

\* _load_from_cache: the fields of self after the call and its return value.
\* An exception leaves the fields assigned before it.
LoadFromCache(cache_path) ==
    LET same == [ret |-> FALSE, chunks |-> chunks,
                 chunk_metadata |-> chunk_metadata, vector_store |-> vector_store]
    IN IF cache_path \notin DOMAIN cache THEN same
       ELSE LET cache_data == cache[cache_path] IN
            IF cache_data.kind # "dict" \/ ~cache_data.has_chunks THEN same
            ELSE IF ~cache_data.has_metadata
                 THEN [same EXCEPT !.chunks = cache_data.chunks]
            ELSE LET assigned == [same EXCEPT !.chunks = cache_data.chunks,
                                             !.chunk_metadata = cache_data.metadata]
                 IN IF ~cache_data.has_embeddings THEN assigned
                    ELSE IF cache_data.emb = "None"
                         THEN [assigned EXCEPT !.ret = TRUE]
                    ELSE IF cache_data.emb # "array" THEN assigned
                    ELSE [assigned EXCEPT
                              !.ret = TRUE,
                              !.vector_store = IndexFlatIP(cache_data.embeddings)]

\* SaveToCache keeping one cache file only: the files of the other keys are
\* removed.
SaveToCacheEvicting(cache_path, cs, md, embeddings, fault) ==
    IF fault = "save" THEN cache
    ELSE IF fault = "dump" THEN (cache_path :> Garbage)
    ELSE (cache_path :> CacheData(cs, md, embeddings))

\* _save_to_cache: the cache directory after the call.  When open() fails
\* ("save") nothing is written; when pickle.dump fails ("dump") the file is
\* left truncated.
SaveToCache(cache_path, cs, md, embeddings, fault) ==
    IF fault = "save" THEN cache
    ELSE IF fault = "dump" THEN (cache_path :> Garbage) @@ cache
    ELSE (cache_path :> CacheData(cs, md, embeddings)) @@ cache

RECURSIVE PerFileAborting(_, _)
\* PerFile leaving the loop at the first file without text instead of going
\* on to the next file.
PerFileAborting(pdf_files, unreadable) ==
    IF pdf_files = <<>> THEN <<>>
    ELSE LET pdf_file == pdf_files[1]
             text == IF Exists(pdf_file)
                     THEN ExtractTextFromPdf(files[pdf_file.name].pages,
                                             pdf_file.name \notin unreadable)
                     ELSE ExtractTextFromPdf(<<>>, FALSE)
         IN IF Strip(text) = <<>> THEN <<>>
            ELSE <<[source |-> Basename(pdf_file), text |-> text,
                    chunks |-> ChunkText(text, Basename(pdf_file))]>>
                     \o PerFileAborting(Tail(pdf_files), unreadable)

RECURSIVE PerFile(_, _)
\* The loop over pdf_files of process_documents: for every file whose text is
\* not blank, its name, its text and the chunks of _chunk_text.
PerFile(pdf_files, unreadable) ==
    IF pdf_files = <<>> THEN <<>>
    ELSE LET pdf_file == pdf_files[1]
             text == IF Exists(pdf_file)
                     THEN ExtractTextFromPdf(files[pdf_file.name].pages,
                                             pdf_file.name \notin unreadable)
                     ELSE ExtractTextFromPdf(<<>>, FALSE)
             rest == PerFile(Tail(pdf_files), unreadable)
         IN IF Strip(text) = <<>> THEN rest
            ELSE <<[source |-> Basename(pdf_file), text |-> text,
                    chunks |-> ChunkText(text, Basename(pdf_file))]>> \o rest

RECURSIVE Extend(_)
\* all_chunks after all_chunks.extend(chunks) for every file
Extend(per_file) ==
    IF per_file = <<>> THEN <<>> ELSE per_file[1].chunks \o Extend(Tail(per_file))

TextsOf(all_chunks) == [i \in 1..Len(all_chunks) |-> all_chunks[i].text]

NoLast ==
    [op |-> "none", ret |-> "none", stage |-> "none", pdf_files |-> <<>>,
     unreadable |-> {},
     cache_path |-> 0, per_file |-> <<>>, raw |-> <<>>, saved |-> FALSE,
     embed_calls |-> 0, question |-> <<>>, retrieved |-> <<>>, gen_calls |-> 0,
     ntotal |-> -1]

\* BuildAndSave writing the provider's vectors to the cache instead of the
\* rows it put into the index.
BuildAndSaveRaw(assigned, cache_path, raw, embeddings, fault) ==
    [assigned EXCEPT
         !.vector_store = IndexFlatIP(embeddings),
         !.cache = SaveToCache(cache_path, assigned.chunks, assigned.chunk_metadata,
                               raw, fault),
         !.last.raw = raw,
         !.last.saved = (fault \notin {"save", "dump"}),
         !.last.ret = "True",
         !.last.stage = "built"]

\* The end of process_documents, from the embeddings on: the index is built
\* from the normalized rows, and the same rows go to the cache.
BuildAndSave(assigned, cache_path, raw, embeddings, fault) ==
    [assigned EXCEPT
         !.vector_store = IndexFlatIP(embeddings),
         !.cache = SaveToCache(cache_path, assigned.chunks, assigned.chunk_metadata,
                               embeddings, fault),
         !.last.raw = raw,
         !.last.saved = (fault \notin {"save", "dump"}),
         !.last.ret = "True",
         !.last.stage = "built"]

\* process_documents after a cache miss: extraction, chunking, embedding.
Rebuild(loaded, cache_path, per_file, all_chunks, fault) ==
    IF all_chunks = <<>>
    THEN [loaded EXCEPT !.last.stage = "empty", !.last.per_file = per_file]
    ELSE IF fault = "encode"
    THEN [loaded EXCEPT !.chunks = TextsOf(all_chunks),
                        !.chunk_metadata = all_chunks,
                        !.last.per_file = per_file,
                        !.last.embed_calls = 1,
                        !.last.stage = "encode"]
    ELSE BuildAndSave([loaded EXCEPT !.chunks = TextsOf(all_chunks),
                                     !.chunk_metadata = all_chunks,
                                     !.last.per_file = per_file,
                                     !.last.embed_calls = 1],
                      cache_path,
                      Encode(TextsOf(all_chunks)),
                      NormalizeRows(Encode(TextsOf(all_chunks))),
                      fault)

\* process_documents from the cache check on; c is what _load_from_cache did.
\* On a miss the loop over the files is run once, and the rest of the call
\* works on its result per_file.
FromCacheOrRebuild(base, pdf_files, cache_path, c, unreadable, fault) ==
    IF c.ret
    THEN [base EXCEPT !.faiss = TRUE,
                      !.chunks = c.chunks,
                      !.chunk_metadata = c.chunk_metadata,
                      !.vector_store = c.vector_store,
                      !.last.cache_path = cache_path,
                      !.last.ret = "True",
                      !.last.stage = "hit"]
    ELSE CHOOSE r \in
             { Rebuild([base EXCEPT !.faiss = TRUE,
                                    !.chunks = c.chunks,
                                    !.chunk_metadata = c.chunk_metadata,
                                    !.vector_store = c.vector_store,
                                    !.last.cache_path = cache_path],
                       cache_path, per_file, Extend(per_file), fault) :
               per_file \in {PerFile(pdf_files, unreadable)} } : TRUE

\* process_documents after _load_embedding_model, whose outcome is m.
AfterModelLoad(m, pdf_files, unreadable, fault) ==
    IF ~m.ret \/ fault = "faiss"
    THEN [embeddings_model |-> m.embeddings_model, model_loads |-> m.model_loads,
          faiss |-> faiss, chunks |-> chunks, chunk_metadata |-> chunk_metadata,
          vector_store |-> vector_store, cache |-> cache,
          last |-> [NoLast EXCEPT !.op = "ingest", !.ret = "False",
                                  !.pdf_files = pdf_files,
                                  !.unreadable = unreadable,
                                  !.stage = IF ~m.ret THEN "model" ELSE "faiss"]]
    ELSE FromCacheOrRebuild(
             [embeddings_model |-> m.embeddings_model, model_loads |-> m.model_loads,
              faiss |-> faiss, chunks |-> chunks, chunk_metadata |-> chunk_metadata,
              vector_store |-> vector_store, cache |-> cache,
              last |-> [NoLast EXCEPT !.op = "ingest", !.ret = "False",
                                      !.pdf_files = pdf_files,
                                      !.unreadable = unreadable]],
             pdf_files,
             GetCachePath(pdf_files),
             LoadFromCache(GetCachePath(pdf_files)),
             unreadable, fault)

\* process_documents: the session, the cache directory and the record of the
\* call after it returns.
ProcessDocumentsResult(pdf_files, unreadable, fault) ==
    AfterModelLoad(LoadEmbeddingModel(fault # "model"), pdf_files, unreadable, fault)

ProcessDocuments(pdf_files, unreadable, fault) ==
    /\ n_steps < MaxSteps
    /\ \E r \in {ProcessDocumentsResult(pdf_files, unreadable, fault)} :
          /\ embeddings_model' = r.embeddings_model
          /\ model_loads' = r.model_loads
          /\ faiss' = r.faiss
          /\ chunks' = r.chunks
          /\ chunk_metadata' = r.chunk_metadata
          /\ vector_store' = r.vector_store
          /\ cache' = r.cache
          /\ last' = r.last
    /\ n_steps' = n_steps + 1
    /\ UNCHANGED files
    /\ UNCHANGED manager_vars

-----------------------------------------------------------------------------
(* query                                                                    *)

RECURSIVE Collect(_)
\* The loop of _retrieve_relevant_chunks over the search results: a result
\* is skipped unless idx < len(self.chunk_metadata); chunk_metadata[idx]
\* counts a negative idx from the end of the list.  pos records the list
\* position (0-based) the chunk was taken from.  raised stands for the
\* IndexError of a negative idx into an empty list.
Collect(hits) ==
    IF hits = <<>> THEN [raised |-> FALSE, got |-> <<>>]
    ELSE LET idx == hits[1].idx
             n == Len(chunk_metadata)
             rest == Collect(Tail(hits))
         IN IF ~(idx < n) THEN rest
            ELSE IF idx < 0 /\ -idx > n THEN [raised |-> TRUE, got |-> <<>>]
            ELSE LET pos == IF idx < 0 THEN n + idx ELSE idx
                 IN [rest EXCEPT !.got = <<[chunk |-> chunk_metadata[pos + 1],
                                            similarity_score |-> hits[1].score,
                                            pos |-> pos]>> \o @]

\* _retrieve_relevant_chunks: every exception gives the empty list.
RetrieveRelevantChunks(question, fault) ==
    IF embeddings_model = 0 \/ fault = "encode" THEN <<>>
    ELSE IF ~vector_store.built \/ fault = "search" THEN <<>>
    ELSE LET query_embedding == NormalizeRows(Encode(<<question>>))
             hits == Search(vector_store.vecs, query_embedding[1], top_k)
             c == Collect(hits)
         IN IF c.raised THEN <<>> ELSE c.got

\* QueryResult without the try/except of query: a failure of the generation
\* backend leaves the call by an exception.
QueryResultUnguarded(question, fault) ==
    LET relevant_chunks == RetrieveRelevantChunks(question, fault)
        base == [NoLast EXCEPT
                     !.op = "query", !.question = question,
                     !.retrieved = relevant_chunks,
                     !.stage = IF embeddings_model = 0 THEN "nomodel"
                               ELSE IF fault = "encode" THEN "encode"
                               ELSE IF ~vector_store.built THEN "noindex"
                               ELSE IF fault = "search" THEN "search"
                               ELSE "searched",
                     !.embed_calls = IF embeddings_model = 0 THEN 0 ELSE 1,
                     !.ntotal = IF vector_store.built THEN Len(vector_store.vecs)
                                ELSE -1]
    IN IF relevant_chunks = <<>> THEN [base EXCEPT !.ret = "no_relevant"]
       ELSE IF fault = "chat" THEN [base EXCEPT !.ret = "raise", !.gen_calls = 1]
       ELSE [base EXCEPT !.ret = "answer", !.gen_calls = 1]

\* QueryResult without the early return of query: the generation backend is
\* called also when no chunk was retrieved.
QueryResultAlwaysGenerating(question, fault) ==
    LET relevant_chunks == RetrieveRelevantChunks(question, fault)
        base == [NoLast EXCEPT
                     !.op = "query", !.question = question,
                     !.retrieved = relevant_chunks,
                     !.stage = IF embeddings_model = 0 THEN "nomodel"
                               ELSE IF fault = "encode" THEN "encode"
                               ELSE IF ~vector_store.built THEN "noindex"
                               ELSE IF fault = "search" THEN "search"
                               ELSE "searched",
                     !.embed_calls = IF embeddings_model = 0 THEN 0 ELSE 1,
                     !.ntotal = IF vector_store.built THEN Len(vector_store.vecs)
                                ELSE -1]
    IN IF relevant_chunks = <<>>
       THEN [base EXCEPT !.ret = IF fault = "chat" THEN "error" ELSE "answer",
                         !.gen_calls = 1]
       ELSE IF fault = "chat" THEN [base EXCEPT !.ret = "error", !.gen_calls = 1]
       ELSE [base EXCEPT !.ret = "answer", !.gen_calls = 1]

\* query: the record of the call after it returns.  ret is the string
\* returned: the fixed "no relevant information" message, the description of
\* an error, or the answer with its sources; "raise" stands for an exception
\* that leaves the call.
QueryResult(question, fault) ==
    LET relevant_chunks == RetrieveRelevantChunks(question, fault)
        base == [NoLast EXCEPT
                     !.op = "query", !.question = question,
                     !.retrieved = relevant_chunks,
                     !.stage = IF embeddings_model = 0 THEN "nomodel"
                               ELSE IF fault = "encode" THEN "encode"
                               ELSE IF ~vector_store.built THEN "noindex"
                               ELSE IF fault = "search" THEN "search"
                               ELSE "searched",
                     !.embed_calls = IF embeddings_model = 0 THEN 0 ELSE 1,
                     !.ntotal = IF vector_store.built THEN Len(vector_store.vecs)
                                ELSE -1]
    IN IF relevant_chunks = <<>> THEN [base EXCEPT !.ret = "no_relevant"]
       ELSE IF fault = "chat" THEN [base EXCEPT !.ret = "error", !.gen_calls = 1]
       ELSE [base EXCEPT !.ret = "answer", !.gen_calls = 1]

Query(question, fault) ==
    /\ n_steps < MaxSteps
    /\ last' = QueryResult(question, fault)
    /\ n_steps' = n_steps + 1
    /\ UNCHANGED <<files, cache, embeddings_model, faiss, vector_store, chunks,
                   chunk_metadata, model_loads>>
    /\ UNCHANGED manager_vars

-----------------------------------------------------------------------------
(* The environment: the files and the cache directory change from outside  *)

\* The last step was not a call.
Outside == [NoLast EXCEPT !.op = "outside"]

\* A PDF is rewritten: new pages, later modification time.  A change that
\* no call can follow is left out.
ModifyFile(name, pages) ==
    /\ n_steps < MaxSteps - 1
    /\ pages # files[name].pages
    /\ files' = [files EXCEPT ![name] = [mtime |-> @.mtime + 1, pages |-> pages]]
    /\ last' = Outside
    /\ n_steps' = n_steps + 1
    /\ UNCHANGED <<cache, embeddings_model, faiss, vector_store, chunks,
                   chunk_metadata, model_loads>>
    /\ UNCHANGED manager_vars

\* The contents a damaged or foreign cache file can unpickle to, given what
\* the file held.
Damaged(e) ==
    IF e.kind # "dict" THEN {} ELSE
    { Garbage,
      [e EXCEPT !.has_chunks = FALSE],
      [e EXCEPT !.has_metadata = FALSE],
      [e EXCEPT !.has_embeddings = FALSE],
      [e EXCEPT !.emb = "other"],
      [e EXCEPT !.emb = "None", !.embeddings = <<>>],
      [e EXCEPT !.embeddings = SubSeq(@, 1, Len(@) - 1)] } \ {e}

\* A cache file is replaced by something process_documents did not write.
TamperCache(cache_path, data) ==
    /\ n_steps < MaxSteps - 1
    /\ cache_path \in DOMAIN cache
    /\ data \in Damaged(cache[cache_path])
    /\ cache' = [cache EXCEPT ![cache_path] = data]
    /\ last' = Outside
    /\ n_steps' = n_steps + 1
    /\ UNCHANGED <<files, embeddings_model, faiss, vector_store, chunks,
                   chunk_metadata, model_loads>>
    /\ UNCHANGED manager_vars

-----------------------------------------------------------------------------
(* The manager of the Ollama server process (src/app/demo.py)              *)

\* A process behind a handle: a server spawned by Popen, or the stand-in a
\* test puts into the manager ("mock"); whether it runs, and the calls made
\* on the handle so far.  waits lists the timeouts of the wait calls, 0 for
\* a wait without timeout.
NewProcess(origin) ==
    [origin |-> origin, running |-> TRUE,
     terminate_calls |-> 0, kill_calls |-> 0, waits |-> <<>>]

\* The record of a call of the manager: the calls it made on its
\* collaborators and what it returned ("raise" when an exception left it).
\* probe_ok says whether the first ollama.list() answered, popen how the
\* spawning went ("none" when it was not tried), answered whether a probe
\* made after the spawning was answered.
NoManagerLast ==
    [op |-> "none", ret |-> "none", probes |-> 0, spawned |-> 0, sleeps |-> <<>>,
     acted |-> FALSE, outcome |-> "none", terminate_calls |-> 0, kill_calls |-> 0,
     waits |-> <<>>, probe_ok |-> FALSE, popen |-> "none", answered |-> FALSE]

\* OllamaManager.__init__
InitManager ==
    /\ ollama_process = 0
    /\ started_by_us = FALSE
    /\ processes = <<>>
    /\ manager_last = NoManagerLast
    /\ pc = <<"entry">>
    /\ retry_i = 0
    /\ wait_time = 0

\* EnsureOllamaRunningResult spawning a server whether or not the probe was
\* answered.
EnsureOllamaRunningResultAlwaysSpawning(probe_ok, popen_ok) ==
    LET called == [NoManagerLast EXCEPT !.op = "ensure", !.probes = 1,
                                        !.probe_ok = probe_ok]
        same == [ollama_process |-> ollama_process, started_by_us |-> started_by_us,
                 processes |-> processes, manager_last |-> called]
    IN IF ~popen_ok THEN [same EXCEPT !.manager_last.ret = "False",
                                      !.manager_last.popen = "raises"]
       ELSE [ollama_process |-> Len(processes) + 1,
             started_by_us |-> TRUE,
             processes |-> Append(processes, NewProcess("popen")),
             manager_last |-> [called EXCEPT !.ret = "True",
                                             !.popen = "ok",
                                             !.spawned = Len(processes) + 1,
                                             !.sleeps = <<3>>]]

\* EnsureOllamaRunningResult returning as soon as the server is spawned,
\* without the sleep.
EnsureOllamaRunningResultNoSleep(probe_ok, popen_ok) ==
    LET called == [NoManagerLast EXCEPT !.op = "ensure", !.probes = 1,
                                        !.probe_ok = probe_ok]
        same == [ollama_process |-> ollama_process, started_by_us |-> started_by_us,
                 processes |-> processes, manager_last |-> called]
    IN IF probe_ok THEN [same EXCEPT !.manager_last.ret = "True"]
       ELSE IF ~popen_ok THEN [same EXCEPT !.manager_last.ret = "False",
                                           !.manager_last.popen = "raises"]
       ELSE [ollama_process |-> Len(processes) + 1,
             started_by_us |-> TRUE,
             processes |-> Append(processes, NewProcess("popen")),
             manager_last |-> [called EXCEPT !.ret = "True",
                                             !.popen = "ok",
                                             !.spawned = Len(processes) + 1]]

\* EnsureOllamaRunningResult setting started_by_us before it calls Popen, so
\* that the flag stays set when Popen raises.
EnsureOllamaRunningResultMarkingFirst(probe_ok, popen_ok) ==
    LET called == [NoManagerLast EXCEPT !.op = "ensure", !.probes = 1,
                                        !.probe_ok = probe_ok]
        same == [ollama_process |-> ollama_process, started_by_us |-> started_by_us,
                 processes |-> processes, manager_last |-> called]
    IN IF probe_ok THEN [same EXCEPT !.manager_last.ret = "True"]
       ELSE IF ~popen_ok THEN [same EXCEPT !.started_by_us = TRUE,
                                           !.manager_last.ret = "False",
                                           !.manager_last.popen = "raises"]
       ELSE [ollama_process |-> Len(processes) + 1,
             started_by_us |-> TRUE,
             processes |-> Append(processes, NewProcess("popen")),
             manager_last |-> [called EXCEPT !.ret = "True",
                                             !.popen = "ok",
                                             !.spawned = Len(processes) + 1,
                                             !.sleeps = <<3>>]]

\* ensure_ollama_running: ollama.list() answers (probe_ok) or raises; Popen
\* gives a process (popen_ok) or raises.  An answered probe returns at once;
\* a Popen that raises has assigned nothing.
EnsureOllamaRunningResult(probe_ok, popen_ok) ==
    LET called == [NoManagerLast EXCEPT !.op = "ensure", !.probes = 1,
                                        !.probe_ok = probe_ok]
        same == [ollama_process |-> ollama_process, started_by_us |-> started_by_us,
                 processes |-> processes, manager_last |-> called]
    IN IF probe_ok THEN [same EXCEPT !.manager_last.ret = "True"]
       ELSE IF ~popen_ok THEN [same EXCEPT !.manager_last.ret = "False",
                                           !.manager_last.popen = "raises"]
       ELSE [ollama_process |-> Len(processes) + 1,
             started_by_us |-> TRUE,
             processes |-> Append(processes, NewProcess("popen")),
             manager_last |-> [called EXCEPT !.ret = "True",
                                             !.popen = "ok",
                                             !.spawned = Len(processes) + 1,
                                             !.sleeps = <<3>>]]

EnsureOllamaRunning(probe_ok, popen_ok) ==
    /\ n_steps < MaxSteps
    /\ \E r \in {EnsureOllamaRunningResult(probe_ok, popen_ok)} :
          /\ ollama_process' = r.ollama_process
          /\ started_by_us' = r.started_by_us
          /\ processes' = r.processes
          /\ manager_last' = r.manager_last
    /\ n_steps' = n_steps + 1
    /\ UNCHANGED rag_vars
    /\ UNCHANGED control_vars

\* What happens first in shutdown_ollama once it acts: the process exits
\* within the wait, the wait times out, terminate raises, the wait raises
\* another error, or kill raises after the timeout.
ShutdownOutcomes == {"exits", "timeout", "terminate_error", "wait_error", "kill_error"}

\* The calls shutdown_ollama makes on the handle after terminate(), by
\* outcome.
KillCalls(outcome) == IF outcome \in {"timeout", "kill_error"} THEN 1 ELSE 0

Waits(outcome) ==
    IF outcome = "terminate_error" THEN <<>>
    ELSE IF outcome = "timeout" THEN <<5, 0>>
    ELSE <<5>>

\* The try block of shutdown_ollama with its except clauses: the process and
\* the record of the call afterwards.
TerminateAndWait(outcome) ==
    [process |-> [processes[ollama_process] EXCEPT
                      !.running = (outcome \in {"terminate_error", "kill_error"}),
                      !.terminate_calls = @ + 1,
                      !.kill_calls = @ + KillCalls(outcome),
                      !.waits = @ \o Waits(outcome)],
     manager_last |-> [NoManagerLast EXCEPT
                           !.op = "shutdown",
                           !.ret = IF outcome = "kill_error" THEN "raise" ELSE "None",
                           !.acted = TRUE,
                           !.outcome = outcome,
                           !.terminate_calls = 1,
                           !.kill_calls = KillCalls(outcome),
                           !.waits = Waits(outcome)]]

\* ShutdownOllamaResult acting on every handle it holds, whoever started the
\* process.
ShutdownOllamaResultAnyHandle(outcome) ==
    IF ollama_process # 0
    THEN [ollama_process |-> 0,
          started_by_us |-> FALSE,
          processes |-> [processes EXCEPT
                             ![ollama_process] = TerminateAndWait(outcome).process],
          manager_last |-> TerminateAndWait(outcome).manager_last]
    ELSE [ollama_process |-> ollama_process, started_by_us |-> started_by_us,
          processes |-> processes,
          manager_last |-> [NoManagerLast EXCEPT !.op = "shutdown", !.ret = "None"]]

\* ShutdownOllamaResult resetting the fields after the try block instead of
\* in a finally clause: they are reset only when no exception was handled.
ShutdownOllamaResultNoFinally(outcome) ==
    IF started_by_us /\ ollama_process # 0
    THEN [ollama_process |-> IF outcome = "exits" THEN 0 ELSE ollama_process,
          started_by_us |-> IF outcome = "exits" THEN FALSE ELSE started_by_us,
          processes |-> [processes EXCEPT
                             ![ollama_process] = TerminateAndWait(outcome).process],
          manager_last |-> TerminateAndWait(outcome).manager_last]
    ELSE [ollama_process |-> ollama_process, started_by_us |-> started_by_us,
          processes |-> processes,
          manager_last |-> [NoManagerLast EXCEPT !.op = "shutdown", !.ret = "None"]]

\* shutdown_ollama: nothing unless the manager started the process and holds
\* its handle; the finally clause resets both fields on every way out.
ShutdownOllamaResult(outcome) ==
    IF started_by_us /\ ollama_process # 0
    THEN [ollama_process |-> 0,
          started_by_us |-> FALSE,
          processes |-> [processes EXCEPT
                             ![ollama_process] = TerminateAndWait(outcome).process],
          manager_last |-> TerminateAndWait(outcome).manager_last]
    ELSE [ollama_process |-> ollama_process, started_by_us |-> started_by_us,
          processes |-> processes,
          manager_last |-> [NoManagerLast EXCEPT !.op = "shutdown", !.ret = "None"]]

ShutdownOllama(outcome) ==
    /\ n_steps < MaxSteps
    /\ \E r \in {ShutdownOllamaResult(outcome)} :
          /\ ollama_process' = r.ollama_process
          /\ started_by_us' = r.started_by_us
          /\ processes' = r.processes
          /\ manager_last' = r.manager_last
    /\ n_steps' = n_steps + 1
    /\ UNCHANGED rag_vars
    /\ UNCHANGED control_vars

\* The tests put a process of their own into a new manager and set
\* started_by_us themselves.
SetProcess(by_us) ==
    /\ n_steps < MaxSteps
    /\ ollama_process = 0 /\ ~started_by_us
    /\ ollama_process' = Len(processes) + 1
    /\ started_by_us' = by_us
    /\ processes' = Append(processes, NewProcess("mock"))
    /\ manager_last' = [NoManagerLast EXCEPT !.op = "set"]
    /\ n_steps' = n_steps + 1
    /\ UNCHANGED rag_vars
    /\ UNCHANGED control_vars

-----------------------------------------------------------------------------
(* The script around the manager (src/app/demo.py): the module entry, the  *)
(* finally block, the atexit hook and the SIGINT handler.  pc is the stack *)
(* of what the main thread is in.  Its first element is the place of the   *)
(* script: "entry", "entry_sleep" (inside the sleep of                     *)
(* ensure_ollama_running), "main_menu", "finally" and "atexit" (about to   *)
(* call shutdown_ollama there), "finally_wait" and "atexit_wait" (inside   *)
(* the wait of that call), "exited".  Above it there is one "handler_wait" *)
(* for every signal_handler that is inside the wait of its own             *)
(* shutdown_ollama call, on top of the code it interrupted.  The signals   *)
(* delivered are counted in n_steps.                                       *)

Top == pc[Len(pc)]

\* Where the script goes on when the shutdown_ollama call it is in is over:
\* from the finally block to the atexit hook, from the hook to the end.
AfterShutdown(at) ==
    IF at \in {"finally", "finally_wait"} THEN "atexit" ELSE "exited"

\* Where the script can be after a handler on top of it was left by an
\* exception: "SystemExit" of sys.exit(0), or the "error" kill() raised in
\* the handler's shutdown_ollama.  Inside the wait of a shutdown_ollama call
\* the bare except of that call catches both, and its finally clause runs
\* before the call returns.  SystemExit passes every "except Exception" and
\* takes the script into the finally block.  An error is caught in
\* ensure_ollama_running, which returns False; in main_menu it is caught
\* when the user is in chat() or generative() and ends the menu otherwise.
Unwound(at, exception) ==
    IF at \in {"finally_wait", "atexit_wait"} THEN {AfterShutdown(at)}
    ELSE IF exception = "SystemExit" THEN {"finally"}
    ELSE IF at = "entry_sleep" THEN {"main_menu"}
    ELSE {"main_menu", "finally"}

\* The try block of the script, first part: ensure_ollama_running up to its
\* return, or up to its sleep when it has spawned the server.  Its result
\* is not looked at; main_menu is next.
Entry(probe_ok, popen_ok) ==
    /\ pc = <<"entry">>
    /\ \E r \in {EnsureOllamaRunningResult(probe_ok, popen_ok)} :
          /\ ollama_process' = r.ollama_process
          /\ started_by_us' = r.started_by_us
          /\ processes' = r.processes
          /\ manager_last' = IF r.manager_last.popen = "ok"
                              THEN [r.manager_last EXCEPT !.ret = "none"]
                              ELSE r.manager_last
          /\ pc' = IF r.manager_last.popen = "ok" THEN <<"entry_sleep">>
                                                  ELSE <<"main_menu">>
    /\ UNCHANGED <<retry_i, wait_time, n_steps>>
    /\ UNCHANGED rag_vars

\* The sleep of ensure_ollama_running is over: it returns True.
EntrySleepEnds ==
    /\ pc = <<"entry_sleep">>
    /\ manager_last' = [manager_last EXCEPT !.ret = "True"]
    /\ pc' = <<"main_menu">>
    /\ UNCHANGED <<ollama_process, started_by_us, processes,
                   retry_i, wait_time, n_steps>>
    /\ UNCHANGED rag_vars

\* main_menu returns (the user chose Exit): the finally block is next.
MainMenuReturns ==
    /\ pc = <<"main_menu">>
    /\ pc' = <<"finally">>
    /\ UNCHANGED <<ollama_process, started_by_us, processes, manager_last,
                   retry_i, wait_time, n_steps>>
    /\ UNCHANGED rag_vars

\* A shutdown_ollama call has passed its guard and called terminate(): the
\* process and the record of the call while it is in wait(timeout=5).
Terminated ==
    [processes |-> [processes EXCEPT ![ollama_process].terminate_calls = @ + 1],
     manager_last |-> [NoManagerLast EXCEPT !.op = "shutdown",
                                            !.acted = TRUE,
                                            !.outcome = "waiting",
                                            !.terminate_calls = 1]]

\* shutdown_ollama as the finally block and the atexit hook call it, up to
\* its wait: the guard, then terminate().  When the guard fails or
\* terminate raises the call is over at once.
ShutdownOllamaBegin(terminate_ok) ==
    /\ pc \in {<<"finally">>, <<"atexit">>}
    /\ IF started_by_us /\ ollama_process # 0 /\ terminate_ok
       THEN /\ processes' = Terminated.processes
            /\ manager_last' = Terminated.manager_last
            /\ pc' = IF pc = <<"finally">> THEN <<"finally_wait">>
                                           ELSE <<"atexit_wait">>
            /\ UNCHANGED <<ollama_process, started_by_us>>
       ELSE /\ \E r \in {ShutdownOllamaResult("terminate_error")} :
                  /\ ollama_process' = r.ollama_process
                  /\ started_by_us' = r.started_by_us
                  /\ processes' = r.processes
                  /\ manager_last' = r.manager_last
            /\ pc' = <<AfterShutdown(pc[1])>>
    /\ UNCHANGED <<retry_i, wait_time, n_steps>>
    /\ UNCHANGED rag_vars

\* The rest of the shutdown_ollama call on top of the stack: its wait ends in
\* one of the outcomes, and the finally clause resets the fields.  When the
\* call is the handler's, the handler then leaves by sys.exit(0) (or the
\* exception of kill() leaves it) and the code below it is unwound.
ShutdownOllamaEnd(outcome) ==
    /\ Top \in {"finally_wait", "atexit_wait", "handler_wait"}
    /\ outcome # "terminate_error"
    /\ processes' = [processes EXCEPT
                         ![ollama_process] =
                             [@ EXCEPT !.running = (outcome = "kill_error"),
                                       !.kill_calls = @ + KillCalls(outcome),
                                       !.waits = @ \o Waits(outcome)]]
    /\ manager_last' = TerminateAndWait(outcome).manager_last
    /\ ollama_process' = 0
    /\ started_by_us' = FALSE
    /\ \E at \in IF Len(pc) = 1 THEN {AfterShutdown(pc[1])}
                  ELSE Unwound(pc[1], IF outcome = "kill_error" THEN "error"
                                                                ELSE "SystemExit") :
          pc' = <<at>>
    /\ UNCHANGED <<retry_i, wait_time, n_steps>>
    /\ UNCHANGED rag_vars

\* signal_handler: SIGINT arrives in the sleep of ensure_ollama_running, in
\* main_menu, or while a shutdown_ollama call (of the script or of a
\* handler) is inside its wait.  The handler
\* runs in the main thread on top of the interrupted code and calls
\* shutdown_ollama, which sees the fields as they are now: with the guard
\* passed and terminate() done it is in its own wait; otherwise the call is
\* over, the handler leaves by sys.exit(0) and the code below is unwound.
SignalHandler(terminate_ok) ==
    /\ n_steps < MaxSteps
    /\ Top \in {"entry_sleep", "main_menu", "finally_wait", "atexit_wait",
                "handler_wait"}
    /\ IF started_by_us /\ ollama_process # 0 /\ terminate_ok
       THEN /\ processes' = Terminated.processes
            /\ manager_last' = Terminated.manager_last
            /\ pc' = Append(pc, "handler_wait")
            /\ UNCHANGED <<ollama_process, started_by_us>>
       ELSE /\ \E r \in {ShutdownOllamaResult("terminate_error")} :
                  /\ ollama_process' = r.ollama_process
                  /\ started_by_us' = r.started_by_us
                  /\ processes' = r.processes
                  /\ manager_last' = r.manager_last
            /\ \E at \in Unwound(pc[1], "SystemExit") : pc' = <<at>>
    /\ n_steps' = n_steps + 1
    /\ UNCHANGED <<retry_i, wait_time>>
    /\ UNCHANGED rag_vars

-----------------------------------------------------------------------------
(* The Windows manager (src/app/demo-Win.py): ensure_ollama_running with   *)
(* its start-up check.  pc is <<"verify">> while the call is in the loop    *)
(* that probes the spawned server and <<"returned">> when it is over.      *)

\* How the spawning goes: ollama.exe is spawned ("ok"); ollama.exe is not
\* found and ollama is spawned instead ("fallback"); Popen raises another
\* error, or the second Popen raises ("raises"), which no clause catches.
WinPopenOutcomes == {"ok", "fallback", "raises"}

\* ensure_ollama_running of OllamaManagerWindows up to its first return, or
\* up to the loop: the probe, the spawning, the sleep of 10 seconds,
\* max_retries and wait_time set.
WinEnsureOllamaRunning(probe_ok, popen) ==
    /\ n_steps < MaxSteps
    /\ pc \in {<<"entry">>, <<"returned">>}
    /\ LET called == [NoManagerLast EXCEPT !.op = "ensure", !.probes = 1,
                                           !.probe_ok = probe_ok]
       IN IF probe_ok \/ popen = "raises"
          THEN /\ manager_last' =
                      IF probe_ok THEN [called EXCEPT !.ret = "True"]
                      ELSE [called EXCEPT !.ret = "raise", !.popen = "raises"]
               /\ pc' = <<"returned">>
               /\ UNCHANGED <<ollama_process, started_by_us, processes,
                              retry_i, wait_time>>
          ELSE /\ ollama_process' = Len(processes) + 1
               /\ started_by_us' = TRUE
               /\ processes' = Append(processes, NewProcess("popen"))
               /\ manager_last' = [called EXCEPT !.popen = popen,
                                                 !.spawned = Len(processes) + 1,
                                                 !.sleeps = <<10>>]
               /\ retry_i' = 0
               /\ wait_time' = 3
               /\ pc' = <<"verify">>
    /\ n_steps' = n_steps + 1
    /\ UNCHANGED rag_vars

\* WinVerifyResult raising wait_time by one after every wait, without the
\* limit of 6.
WinVerifyResultUncapped(ok) ==
    LET probed == [manager_last EXCEPT !.probes = @ + 1]
        over == [manager_last |-> [probed EXCEPT !.ret = "True", !.answered = ok],
                 retry_i |-> 0, wait_time |-> 0, pc |-> <<"returned">>]
    IN IF ok THEN over
       ELSE IF retry_i < max_retries - 1
       THEN [manager_last |-> [probed EXCEPT !.sleeps = Append(@, wait_time)],
             retry_i |-> retry_i + 1,
             wait_time |-> wait_time + 1,
             pc |-> pc]
       ELSE over

\* One turn of the loop for i in range(max_retries): ollama.list() answers
\* (ok) and the call returns True; or it raises, and the loop sleeps
\* wait_time and raises it by one up to 6, or, on the last turn, gives up
\* and returns True as well.
WinVerifyResult(ok) ==
    LET probed == [manager_last EXCEPT !.probes = @ + 1]
        over == [manager_last |-> [probed EXCEPT !.ret = "True", !.answered = ok],
                 retry_i |-> 0, wait_time |-> 0, pc |-> <<"returned">>]
    IN IF ok THEN over
       ELSE IF retry_i < max_retries - 1
       THEN [manager_last |-> [probed EXCEPT !.sleeps = Append(@, wait_time)],
             retry_i |-> retry_i + 1,
             wait_time |-> IF wait_time + 1 < 6 THEN wait_time + 1 ELSE 6,
             pc |-> pc]
       ELSE over

WinVerify(ok) ==
    /\ pc = <<"verify">>
    /\ \E r \in {WinVerifyResult(ok)} :
          /\ manager_last' = r.manager_last
          /\ retry_i' = r.retry_i
          /\ wait_time' = r.wait_time
          /\ pc' = r.pc
    /\ UNCHANGED <<ollama_process, started_by_us, processes, n_steps>>
    /\ UNCHANGED rag_vars

-----------------------------------------------------------------------------
(* The specification                                                       *)

\* What goes wrong first in a call, if anything: the model cannot be loaded,
\* faiss cannot be imported, encode raises, the cache file cannot be opened
\* for writing, the write fails part way; encode raises, search raises, the
\* generation backend raises.
IngestFaults == {"none", "model", "faiss", "encode", "save", "dump"}

QueryFaults == {"none", "encode", "search", "chat"}

\* The files PyPDF2 fails on during one call: none, or b.pdf.
Unreadable == { {}, {"b.pdf"} }

\* No file is read when the call ends before the extraction, and only the
\* files of the list are read.
UnreadableFor(pdf_files, fault) ==
    IF fault \in {"model", "faiss"} THEN { {} }
    ELSE { u \in Unreadable : u \subseteq { pdf_files[i].name : i \in 1..Len(pdf_files) } }

\* A call that finds its cache entry neither embeds nor saves, so it meets
\* none of the faults of these steps.
IngestFaultsFor(pdf_files) ==
    IF LoadFromCache(GetCachePath(pdf_files)).ret
    THEN IngestFaults \ {"encode", "save", "dump"}
    ELSE IngestFaults

\* The PDFs found in the documents folder at the start.
InitialPages(name) == IF name = "a.pdf" THEN <<Str("x", 1199)>> ELSE <<Str("x", 479)>>

\* RAGSystem.__init__, with some PDFs in the documents folder and an empty
\* cache folder.
Init ==
    /\ files = [n \in Names |-> [mtime |-> 1, pages |-> InitialPages(n)]]
    /\ cache = <<>>
    /\ embeddings_model = 0
    /\ faiss = FALSE
    /\ vector_store = NoStore
    /\ chunks = <<>>
    /\ chunk_metadata = <<>>
    /\ model_loads = 0
    /\ last = NoLast
    /\ n_steps = 0
    /\ InitManager

Next ==
    \/ \E pdf_files \in PdfFileLists :
           \E fault \in IngestFaultsFor(pdf_files) :
               \E unreadable \in UnreadableFor(pdf_files, fault) :
                   ProcessDocuments(pdf_files, unreadable, fault)
    \/ \E question \in Questions, fault \in QueryFaults : Query(question, fault)
    \/ \E name \in Names, pages \in PdfContents : ModifyFile(name, pages)
    \/ \E cache_path \in DOMAIN cache :
           \E data \in Damaged(cache[cache_path]) : TamperCache(cache_path, data)

Spec == Init /\ [][Next]_vars

-----------------------------------------------------------------------------
(* The chunker on its own: process_documents applied to texts made of a run *)
(* of text, a run of blanks and a run of text, of the lengths where the     *)
(* windows and the minimum length change their outcome.                     *)

RunLengths == {0, 49, 50, 450, 479, 1199}

XSY(a, b, c) == <<Concat(Str("x", a), Concat(Str(" ", b), Str("y", c)))>>

ChunkerPages ==
    { XSY(a, b, c) : a, b, c \in RunLengths } \cup { XSY(30, 449, 0), XSY(100, 1000, 99) }

InitChunker ==
    /\ files \in { [n \in Names |-> [mtime |-> 1,
                                    pages |-> IF n = "a.pdf" THEN p
                                              ELSE InitialPages(n)]] :
                   p \in ChunkerPages }
    /\ cache = <<>>
    /\ embeddings_model = 0
    /\ faiss = FALSE
    /\ vector_store = NoStore
    /\ chunks = <<>>
    /\ chunk_metadata = <<>>
    /\ model_loads = 0
    /\ last = NoLast
    /\ n_steps = 0
    /\ InitManager

NextChunker ==
    \E pdf_files \in PdfFileLists, fault \in {"none", "save"} :
        ProcessDocuments(pdf_files, {}, fault)

ChunkerSpec == InitChunker /\ [][NextChunker]_vars

-----------------------------------------------------------------------------
(* The manager on its own: a session of calls of ensure_ollama_running and *)
(* shutdown_ollama on one manager.                                         *)

NextManager ==
    \/ \E probe_ok, popen_ok \in BOOLEAN : EnsureOllamaRunning(probe_ok, popen_ok)
    \/ \E outcome \in ShutdownOutcomes : ShutdownOllama(outcome)
    \/ \E by_us \in BOOLEAN : SetProcess(by_us)

ManagerSpec == Init /\ [][NextManager]_vars

-----------------------------------------------------------------------------
(* The script from its entry to its exit, with SIGINT arriving at any of    *)
(* the places above.                                                        *)

NextProgram ==
    \/ \E probe_ok, popen_ok \in BOOLEAN : Entry(probe_ok, popen_ok)
    \/ EntrySleepEnds
    \/ MainMenuReturns
    \/ \E terminate_ok \in BOOLEAN : ShutdownOllamaBegin(terminate_ok)
    \/ \E outcome \in ShutdownOutcomes : ShutdownOllamaEnd(outcome)
    \/ \E terminate_ok \in BOOLEAN : SignalHandler(terminate_ok)

ProgramSpec == Init /\ [][NextProgram]_vars

-----------------------------------------------------------------------------
(* The Windows manager on its own: calls of ensure_ollama_running, each     *)
(* run to its return.  The loop is code of the running main thread, so a   *)
(* turn that can be taken is taken.                                        *)

NextWindows ==
    \/ \E probe_ok \in BOOLEAN, popen \in WinPopenOutcomes :
           WinEnsureOllamaRunning(probe_ok, popen)
    \/ \E ok \in BOOLEAN : WinVerify(ok)

WindowsSpec ==
    Init /\ [][NextWindows]_vars /\ WF_vars(\E ok \in BOOLEAN : WinVerify(ok))

-----------------------------------------------------------------------------
(* Properties                                                               *)

Ingested == last.op = "ingest"

Queried == last.op = "query"

\* The index and the two chunk lists have one element per chunk.
Aligned ==
    /\ vector_store.built
    /\ Len(vector_store.vecs) = Len(chunks)
    /\ Len(chunk_metadata) = Len(chunks)

Min(a, b) == IF a < b THEN a ELSE b

\* C1: after an ingest that built the index, the chunk_id values of the
\* combined chunk list are 0..n-1 in insertion order (unique, contiguous,
\* not restarting at 0 for each file).
C1_ChunkIdsContiguous ==
    (Ingested /\ last.stage = "built") =>
        \A i \in 1..Len(chunk_metadata) : chunk_metadata[i].chunk_id = i - 1

\* C2: an ingest never uses a cache entry whose chunk count differs from its
\* embedding count or whose embeddings are missing: when process_documents
\* returned from the cache, the entry at the derived key has as many
\* embeddings as chunks.
C2_MismatchedEntryRejected ==
    (Ingested /\ last.stage = "hit") =>
        LET cache_data == cache[last.cache_path]
        IN /\ cache_data.emb = "array"
           /\ Len(cache_data.embeddings) = Len(cache_data.chunks)

\* C3: a retrieval over an index of n vectors (one per chunk) returns exactly
\* min(top_k, n) chunks, each from a distinct position that the index holds.
C3_RetrievalClamped ==
    (Queried /\ last.stage = "searched" /\ Aligned) =>
        /\ Len(last.retrieved) = Min(top_k, last.ntotal)
        /\ \A i, j \in 1..Len(last.retrieved) :
               i # j => last.retrieved[i].pos # last.retrieved[j].pos
        /\ \A i \in 1..Len(last.retrieved) :
               /\ last.retrieved[i].pos \in 0..(last.ntotal - 1)
               /\ last.retrieved[i].similarity_score # NegInf

\* C4: the embeddings an ingest writes to the cache entry are the vectors the
\* embedding provider returned, not the normalized ones.
C4_CacheHoldsRawEmbeddings ==
    (Ingested /\ last.stage = "built" /\ last.saved) =>
        cache[last.cache_path].embeddings = last.raw

\* Two lists of paths hold the same files, each once.
IsPermutation(l1, l2) ==
    /\ Len(l1) = Len(l2)
    /\ { l1[i] : i \in 1..Len(l1) } = { l2[i] : i \in 1..Len(l2) }
    /\ Cardinality({ l1[i] : i \in 1..Len(l1) }) = Len(l1)

\* C5: the cache path of an ingested list of existing files is the cache
\* path of every permutation of that list, the modification times being the
\* same.
C5_CacheKeyOrderIndependent ==
    (Ingested /\ last.stage \in {"hit", "built"}
              /\ \A i \in 1..Len(last.pdf_files) : Exists(last.pdf_files[i])) =>
        \A l \in PdfFileLists :
            IsPermutation(l, last.pdf_files) =>
                GetCachePath(l) = GetCachePath(last.pdf_files)

\* C6: in the state that follows a successful ingest, the index holds one
\* vector per element of the chunk list and of the chunk metadata list.
C6_IndexAlignedAfterIngest ==
    (Ingested /\ last.ret = "True") => Aligned

\* C7: when the embedding model cannot be loaded, ingest returns failure
\* without extracting or caching; when the embedding of the question fails,
\* answer returns an error description, not a normal outcome.
C7_ProviderFailureReported ==
    /\ (Ingested /\ last.stage = "model") =>
           (last.ret = "False" /\ last.per_file = <<>> /\ ~last.saved)
    /\ (Queried /\ last.stage = "encode") => last.ret = "error"

\* C8: answer gives the "no relevant information" response only when the
\* index is empty; over a non-empty index it retrieves chunks and calls the
\* generation backend.
C8_NoRelevantOnlyOnEmptyIndex ==
    /\ (Queried /\ last.ret = "no_relevant") => last.ntotal = 0
    /\ (Queried /\ last.ntotal > 0) =>
           (last.retrieved # <<>> /\ last.gen_calls = 1)

\* C9: the embedding model is loaded at most once in a session.
C9_ModelLoadedOnce == model_loads <= 1

\* The window starts 0, 450, 900, ... below len(text).
WindowStarts(text) == { 450 * k : k \in 0..((StrLen(text) - 1) \div 450) }

\* The window of 500 characters that starts at s.
Window(text, s) == Slice(text, s, s + 500)

\* The starts of the windows of at least 50 characters once trimmed.
Kept(text) == { s \in WindowStarts(text) : StrLen(Strip(Window(text, s))) >= 50 }

\* The chunks r.chunks made from r.text are the kept windows, trimmed, in
\* order, numbered from 0 without gaps.
ChunksAreKeptWindows(r) ==
    /\ Len(r.chunks) = Cardinality(Kept(r.text))
    /\ \A k \in 1..Len(r.chunks) :
           \E s \in Kept(r.text) :
               /\ Cardinality({ t \in Kept(r.text) : t < s }) = k - 1
               /\ r.chunks[k] = [text     |-> Strip(Window(r.text, s)),
                                 source   |-> r.source,
                                 chunk_id |-> k - 1]

HasIds012(cs) == Len(cs) = 3 /\ \A k \in 1..3 : cs[k].chunk_id = k - 1

\* C10 as claimed: the chunks of every chunked text are its kept windows,
\* every 480-character text yields 1 chunk and every 1200-character text
\* yields 3 chunks with ids 0, 1, 2.
C10_AsClaimed ==
    \A i \in 1..Len(last.per_file) :
        LET r == last.per_file[i]
        IN /\ ChunksAreKeptWindows(r)
           /\ StrLen(r.text) = 480 => Len(r.chunks) = 1
           /\ StrLen(r.text) = 1200 => HasIds012(r.chunks)

\* C10, amended: the chunks of every chunked text are its kept windows (the
\* last, shorter window included, a dropped window using up no id); a
\* 480-character text of at least 50 characters once trimmed yields 1 chunk,
\* and a 1200-character text whose three windows all have at least 50
\* characters once trimmed yields 3 chunks with ids 0, 1, 2.
C10_ChunksAreKeptWindows ==
    \A i \in 1..Len(last.per_file) :
        LET r == last.per_file[i]
        IN /\ ChunksAreKeptWindows(r)
           /\ (StrLen(r.text) = 480 /\ StrLen(Strip(r.text)) >= 50)
                  => Len(r.chunks) = 1
           /\ (StrLen(r.text) = 1200 /\ Kept(r.text) = WindowStarts(r.text))
                  => HasIds012(r.chunks)

\* C10 witness: a text was chunked whose middle window was dropped and whose
\* last window, shorter than 500 characters, became chunk 1.
C10_DroppedWindowChunked ==
    \E i \in 1..Len(last.per_file) :
        LET r == last.per_file[i]
        IN /\ Cardinality(WindowStarts(r.text)) = 3
           /\ Kept(r.text) = {0, 900}
           /\ StrLen(r.text) < 1400
           /\ Len(r.chunks) = 2
           /\ r.chunks[2].chunk_id = 1

\* C11: two chunks of one file with consecutive ids i and i+1 come from
\* windows chunk_size - chunk_overlap characters apart, so that the last
\* chunk_overlap characters of the window of chunk i are the first
\* chunk_overlap characters of the window of chunk i+1, also when a window of
\* the file was dropped.
C11_ConsecutiveIdsOverlap ==
    \A i \in 1..Len(last.per_file) :
        LET r == last.per_file[i]
            starts == ChunkStarts(r.text, 0)
        IN \A k \in 1..(Len(r.chunks) - 1) :
               r.chunks[k + 1].chunk_id = r.chunks[k].chunk_id + 1 =>
                   /\ starts[k + 1] = starts[k] + (chunk_size - chunk_overlap)
                   /\ Slice(r.text, starts[k] + chunk_size - chunk_overlap,
                                    starts[k] + chunk_size)
                          = Slice(r.text, starts[k + 1], starts[k + 1] + chunk_overlap)

\* A cache file holds no usable entry: it does not unpickle to a dict, a
\* field is missing, or the embeddings are not an array.
Corrupt(e) ==
    \/ e.kind # "dict"
    \/ ~e.has_chunks \/ ~e.has_metadata \/ ~e.has_embeddings
    \/ e.emb # "array"

\* C12: whatever the cache file at the derived key holds (not deserializable,
\* a field missing, a field of the wrong type), an ingest that gets as far as
\* the cache treats the entry as absent: it extracts and embeds the documents
\* again and returns the result of that rebuild.
C12_CorruptEntryForcesRebuild ==
    [][ ( /\ last'.op = "ingest"
          /\ last'.stage \notin {"model", "faiss"}
          /\ last'.cache_path \in DOMAIN cache
          /\ Corrupt(cache[last'.cache_path]) )
        => /\ last'.stage \in {"empty", "encode", "built"}
           /\ last'.ret = (IF last'.stage = "built" THEN "True" ELSE "False") ]_vars

\* The step is an ingest of the list of files that the ingest before it
\* built the index for, nothing having happened in between; it loaded its
\* model and the index library, so it got as far as the cache.
SecondIngest ==
    /\ last.op = "ingest" /\ last.stage = "built"
    /\ last'.op = "ingest" /\ last'.pdf_files = last.pdf_files
    /\ last'.stage \notin {"model", "faiss"}

\* The step hit the cache, embedded nothing and left the session as it was.
HitsAndRestores ==
    /\ last'.stage = "hit" /\ last'.ret = "True"
    /\ last'.embed_calls = 0
    /\ chunks' = chunks
    /\ chunk_metadata' = chunk_metadata
    /\ vector_store' = vector_store

\* C13 as claimed: after a successful ingest on a cache miss, a second ingest
\* of the same files hits the cache, embeds nothing and leaves the session
\* with the same chunk texts, metadata and index vectors.
C13_AsClaimed == [][ SecondIngest => HitsAndRestores ]_vars

\* C13, amended: after a successful ingest on a cache miss that wrote its
\* cache entry, a second ingest of the same files hits the cache, embeds
\* nothing and leaves the session with the same chunk texts, metadata and
\* index vectors.
C13_SecondIngestHits == [][ (SecondIngest /\ last.saved) => HitsAndRestores ]_vars

\* C13 witness: the second call of a session is an ingest that hit the entry
\* the first call wrote, and the index holds a vector that the provider did
\* not return with unit length.
C13_SecondIngestHit ==
    /\ n_steps = 2 /\ Ingested /\ last.stage = "hit"
    /\ last.embed_calls = 0
    /\ Aligned
    /\ \E i \in 1..Len(chunks) : EmbedVec(chunks[i]) # Normalize(EmbedVec(chunks[i]))

\* C14: when no file of the document set yields a retained chunk, ingest
\* returns failure, builds or replaces no index and writes no cache entry,
\* whatever the cache holds for the derived key.
C14_EmptySetFails ==
    [][ ( /\ last'.op = "ingest"
          /\ Extend(PerFile(last'.pdf_files, last'.unreadable)) = <<>> )
        => /\ last'.ret = "False"
           /\ vector_store' = vector_store
           /\ cache' = cache ]_vars

\* The step is a call of process_documents or query.
CallStep == last'.op \in {"ingest", "query"}

\* C15 as claimed: no ingest or answer call modifies or deletes a cache
\* entry that exists: the content under an existing key stays what it was.
C15_AsClaimed ==
    [][ CallStep =>
            \A k \in DOMAIN cache : k \in DOMAIN cache' /\ cache'[k] = cache[k] ]_vars

\* C15, amended: no ingest or answer call modifies or deletes a cache entry
\* that holds its three fields with an array of embeddings; a cache file
\* that holds no such entry is overwritten by the ingest that finds it.
C15_EntryNeverModified ==
    [][ CallStep =>
            \A k \in DOMAIN cache :
                ~Corrupt(cache[k]) => (k \in DOMAIN cache' /\ cache'[k] = cache[k]) ]_vars

\* C15 witness: an ingest of another document set has just written a second
\* entry, next to the entry an earlier ingest wrote.
C15_SecondEntryWritten ==
    /\ Ingested /\ last.stage = "built" /\ last.saved
    /\ Cardinality(DOMAIN cache) = 2
    /\ \A k \in DOMAIN cache : ~Corrupt(cache[k])

\* C16: query returns a string in every session state and for every failure
\* of the embedding provider, the index search or the generation backend,
\* also before any ingest: no exception leaves the call.
C16_QueryReturnsString ==
    Queried => last.ret \in {"no_relevant", "error", "answer"}

\* C16 witness: a query retrieved chunks, the generation backend failed, and
\* the call returned the description of the error.
C16_BackendFailureReturned ==
    Queried /\ last.retrieved # <<>> /\ last.gen_calls = 1 /\ last.ret = "error"

\* C17: one answer call invokes the generation backend exactly once when the
\* retrieval returned a chunk, and not at all when it returned none, in which
\* case the fixed "no relevant information" response is returned.
C17_GenerationCalledOnceIfRetrieved ==
    Queried =>
        IF last.retrieved = <<>>
        THEN last.gen_calls = 0 /\ last.ret = "no_relevant"
        ELSE last.gen_calls = 1

\* C17 witness: a query retrieved chunks from a built index and returned the
\* answer of the one call it made to the generation backend.
C17_AnsweredFromChunks ==
    Queried /\ last.stage = "searched" /\ Len(last.retrieved) = top_k
            /\ last.gen_calls = 1 /\ last.ret = "answer"

\* The ingest ran the extraction loop (it missed the cache).
Extracted == Ingested /\ last.stage \in {"empty", "encode", "built"}

\* The text the PDF at path holds now, or nothing when the extraction fails:
\* the file is missing or could not be read during the last call.
TextNow(path) ==
    IF Exists(path) /\ path.name \notin last.unreadable
    THEN ExtractPages(files[path.name].pages, <<>>)
    ELSE <<>>

\* The chunks of the combined list of the last call that come from path.
ChunksFrom(path) ==
    LET FromPath(c) == c.source = path.name
    IN SelectSeq(Extend(last.per_file), FromPath)

\* C18: in an ingest that missed the cache, a file whose extraction fails or
\* gives only whitespace contributes no chunk, every other file of the list
\* contributes the chunks of its text, and the ingest succeeds when a file
\* yields a chunk (and the embedding of the chunks does not fail).
C18_FailingFileSkipped ==
    Extracted =>
        /\ \A i \in 1..Len(last.pdf_files) :
               LET path == last.pdf_files[i]
               IN IF Strip(TextNow(path)) = <<>>
                  THEN ChunksFrom(path) = <<>>
                  ELSE ChunksFrom(path) = ChunkText(TextNow(path), path.name)
        /\ ( /\ last.stage # "encode"
              /\ \E i \in 1..Len(last.pdf_files) :
                     ChunkText(TextNow(last.pdf_files[i]), "") # <<>> )
               => last.ret = "True"

\* C18 witness: the first file of the list gave only whitespace, the second
\* file was chunked, and the ingest succeeded with the chunks of the second.
C18_SecondFileChunked ==
    /\ Extracted /\ last.ret = "True"
    /\ Len(last.pdf_files) = 2
    /\ TextNow(last.pdf_files[1]) # <<>>
    /\ Strip(TextNow(last.pdf_files[1])) = <<>>
    /\ chunk_metadata # <<>>
    /\ \A i \in 1..Len(chunk_metadata) :
           chunk_metadata[i].source = last.pdf_files[2].name

\* C19: shutdown_ollama calls neither terminate nor kill on a process when
\* started_by_us is False, also when ollama_process holds a handle.
C19_ForeignProcessUntouched ==
    [][ (manager_last'.op = "shutdown" /\ ~started_by_us)
            => /\ manager_last'.terminate_calls = 0
               /\ manager_last'.kill_calls = 0
               /\ processes' = processes ]_vars

\* C19 witness: shutdown_ollama returned without acting while the manager
\* held the handle of a running process it had not started.
C19_ForeignProcessKept ==
    /\ manager_last.op = "shutdown" /\ ~manager_last.acted
    /\ ollama_process # 0 /\ ~started_by_us
    /\ processes[ollama_process].running
    /\ processes[ollama_process].terminate_calls = 0

\* C20: when the manager started the process and it exits within the wait,
\* shutdown_ollama calls terminate once, waits once with a timeout of 5
\* seconds and does not call kill; on every way out of a shutdown_ollama that
\* acted, ollama_process is None and started_by_us is False.
C20_ShutdownResetsFields ==
    (manager_last.op = "shutdown" /\ manager_last.acted) =>
        /\ ollama_process = 0 /\ ~started_by_us
        /\ manager_last.outcome = "exits" =>
               /\ manager_last.terminate_calls = 1
               /\ manager_last.waits = <<5>>
               /\ manager_last.kill_calls = 0

\* C20 witness: the wait timed out, shutdown_ollama killed the process it
\* had spawned, and both fields are reset.
C20_KilledAndReset ==
    /\ manager_last.op = "shutdown" /\ manager_last.outcome = "timeout"
    /\ manager_last.kill_calls = 1
    /\ ollama_process = 0 /\ ~started_by_us
    /\ \E p \in 1..Len(processes) :
           processes[p].origin = "popen" /\ processes[p].kill_calls = 1

\* An ensure_ollama_running call has just returned.
Ensured == manager_last.op = "ensure"

\* C21: when the probe of the server is answered, ensure_ollama_running
\* returns True after exactly one probe, spawns no process and leaves
\* started_by_us and ollama_process as they were: False and None on a
\* manager that has started nothing.
C21_AnsweredProbeChangesNothing ==
    [][ (manager_last'.op = "ensure" /\ manager_last'.probe_ok)
            => /\ manager_last'.ret = "True"
               /\ manager_last'.probes = 1
               /\ manager_last'.spawned = 0 /\ manager_last'.popen = "none"
               /\ manager_last'.sleeps = <<>>
               /\ processes' = processes
               /\ started_by_us' = started_by_us
               /\ ollama_process' = ollama_process
               /\ (processes = <<>> => (~started_by_us' /\ ollama_process' = 0)) ]_vars

\* C21 witness: on a new manager the probe was answered; the call returned
\* True and the manager holds no process.
C21_ServerAlreadyRunning ==
    /\ Ensured /\ manager_last.probe_ok /\ manager_last.ret = "True"
    /\ manager_last.probes = 1
    /\ processes = <<>> /\ ollama_process = 0 /\ ~started_by_us

\* C22: when the probe fails and Popen gives a process,
\* ensure_ollama_running returns True with started_by_us True and
\* ollama_process the spawned process, after one sleep of 3 seconds.
C22_SpawnedServerHeld ==
    (Ensured /\ ~manager_last.probe_ok /\ manager_last.popen = "ok") =>
        /\ manager_last.ret = "True"
        /\ started_by_us
        /\ ollama_process = Len(processes)
        /\ manager_last.spawned = ollama_process
        /\ ollama_process \in DOMAIN processes
        /\ processes[ollama_process] = NewProcess("popen")
        /\ manager_last.sleeps = <<3>>
        /\ manager_last.probes = 1

\* C22 witness: the first call on a new manager spawned the server.
C22_ServerStarted ==
    /\ Ensured /\ ~manager_last.probe_ok /\ manager_last.popen = "ok"
    /\ Len(processes) = 1 /\ ollama_process = 1 /\ started_by_us
    /\ manager_last.sleeps = <<3>>

\* C23: when the probe fails and Popen raises, ensure_ollama_running returns
\* False and leaves the manager as it was: started_by_us stays False and
\* ollama_process stays None on a manager that has started nothing.
C23_FailedSpawnChangesNothing ==
    [][ (manager_last'.op = "ensure" /\ manager_last'.popen = "raises")
            => /\ manager_last'.ret = "False"
               /\ ~manager_last'.probe_ok
               /\ manager_last'.spawned = 0
               /\ processes' = processes
               /\ started_by_us' = started_by_us
               /\ ollama_process' = ollama_process
               /\ (processes = <<>> => (~started_by_us' /\ ollama_process' = 0)) ]_vars

\* C23 witness: on a new manager the probe failed and Popen raised; the call
\* returned False and the manager holds no process.
C23_StartupFailed ==
    /\ Ensured /\ manager_last.popen = "raises" /\ manager_last.ret = "False"
    /\ processes = <<>> /\ ollama_process = 0 /\ ~started_by_us

\* C24: an ingest call that returns failure leaves the session's chunk list,
\* chunk metadata and similarity index exactly as they were before the call,
\* also when a cache entry was partly read before it was rejected.
C24_FailedIngestLeavesSession ==
    [][ (last'.op = "ingest" /\ last'.ret = "False")
            => /\ chunks' = chunks
               /\ chunk_metadata' = chunk_metadata
               /\ vector_store' = vector_store ]_vars

\* C25: over every sequence of ensure_ollama_running and shutdown_ollama
\* calls, a server process the manager spawned is the one held in
\* ollama_process until shutdown_ollama terminates it: no spawned process is
\* left without a handle, also when ensure_ollama_running is called again
\* while the first server does not answer yet.
C25_SpawnedProcessHeld ==
    \A p \in 1..Len(processes) :
        (processes[p].origin = "popen" /\ processes[p].terminate_calls = 0)
            => ollama_process = p

\* C26: whatever the order in which the finally block, the atexit hook and
\* the SIGINT handler call shutdown_ollama, and also when the handler runs
\* while a shutdown_ollama call is still waiting for the process, terminate
\* is issued at most once for a spawned process.
C26_TerminateIssuedOnce ==
    \A p \in 1..Len(processes) :
        processes[p].origin = "popen" => processes[p].terminate_calls <= 1

\* The probes and waits of a Windows start-up check so far are those of the
\* claim: at most 8 probes after the spawning, every failed probe but the
\* eighth followed by one wait, the waits 3, 4, 5, 6, 6, 6, 6 in this
\* order, no probe after one that was answered, and True returned.
C27_ProbesAndWaits ==
    (manager_last.op = "ensure" /\ manager_last.popen \in {"ok", "fallback"}) =>
        LET probed == manager_last.probes - 1
            waited == Tail(manager_last.sleeps)
        IN /\ probed <= 8
           /\ manager_last.sleeps[1] = 10
           /\ Len(waited) <= 7
           /\ \A k \in 1..Len(waited) :
                  waited[k] = <<3, 4, 5, 6, 6, 6, 6>>[k] /\ waited[k] <= 6
           /\ pc = <<"verify">> =>
                  /\ ~manager_last.answered
                  /\ probed < 8
                  /\ Len(waited) = probed
           /\ pc = <<"returned">> =>
                  /\ manager_last.ret = "True"
                  /\ probed >= 1
                  /\ Len(waited) = probed - 1
                  /\ manager_last.answered \/ probed = 8

\* C27: on Windows, after spawning the server, ensure_ollama_running always
\* terminates: it probes the server at most 8 times, waits 3, 4, 5, 6, 6, 6,
\* 6 seconds between failed probes (never more than 6, no wait after the
\* last probe), returns True at the first answered probe, and returns True
\* also when all 8 probes fail.
C27_StartupCheckTerminates ==
    /\ []C27_ProbesAndWaits
    /\ (pc = <<"verify">>) ~> (pc = <<"returned">>)

\* C27 witness: all 8 probes failed, the call waited seven times and
\* returned True.
C27_GaveUpAfterEightProbes ==
    /\ pc = <<"returned">>
    /\ manager_last.op = "ensure" /\ manager_last.ret = "True"
    /\ ~manager_last.answered
    /\ manager_last.probes = 9
    /\ manager_last.sleeps = <<10, 3, 4, 5, 6, 6, 6, 6>>
    /\ started_by_us /\ ollama_process = manager_last.spawned

====
